---- MODULE Spec2Model ----
(***************************************************************************)
(* A model of dirwatcher.py: the polling loop watch_directory, its         *)
(* reconcile helpers sync_added_files / sync_deleted_files, the reader     *)
(* read_single_file and the matcher check_magic_text, together with the    *)
(* filesystem and the signals they run against.                            *)
(*                                                                         *)
(* Strings are tuples of one-character strings.  A file's content is the   *)
(* sequence of its lines, as f.readlines() returns them (files are written *)
(* in whole lines).  file_cache is a Python dict: a sequence of            *)
(* [file, off] records in insertion order.                                 *)
(***************************************************************************)
EXTENDS Integers, Sequences, FiniteSets, TLC

\* ------------------------------------------------------------------ bounds
MaxLines == 2    \* most lines a file holds
MaxEnv == 2      \* most filesystem changes and signals in one run
MaxCycles == 3   \* most iterations of the watch loop in one run

\* ----------------------------------------------------------- configuration
\* The ext argument: interpolated into a regular expression (line 166).
file_ext == <<".", "l">>
\* The text argument.
magic_text == <<"E", "r">>

\* Directory entries the environment may create.
Names == { <<"a", ".", "l">>, <<"c", "x", "l">>, <<"d", ".", "L">> }
\* Lines the environment may append.
LineSet == { <<"e", "R", "r">>, <<"o", "k">> }

\* ------------------------------------------------------------ pure helpers
Range(s) == { s[i] : i \in 1..Len(s) }

Min(S) == CHOOSE x \in S : \A y \in S : x <= y

\* All orderings of a finite set, as sequences without repetition.
Orderings(S) ==
    { s \in [1..Cardinality(S) -> S] : \A i, j \in 1..Cardinality(S) : s[i] = s[j] => i = j }

\* All sequences over S of length at most n.
SeqsUpTo(S, n) == UNION { [1..k -> S] : k \in 0..n }

\* str.lower() on the modelled alphabet.
LowerChar(c) ==
    CASE c = "E" -> "e"
      [] c = "R" -> "r"
      [] c = "L" -> "l"
      [] OTHER -> c

Lower(s) == [i \in 1..Len(s) |-> LowerChar(s[i])]

\* Python's  text in line  on strings: text is a contiguous part of line.
Contains(text, line) ==
    \E i \in 1..(Len(line) - Len(text) + 1) : SubSeq(line, i, i + Len(text) - 1) = text

\* One pattern character against one character: "." is the regular-expression
\* wildcard, every other modelled character stands for itself.
RegexCharMatch(p, c) == p = "." \/ p = c

\* re.search(r'\S*{}\Z'.format(file_ext), name): some run of non-blank characters
\* followed by the pattern file_ext, ending at the end of name.  The run may be
\* empty and the search may start anywhere, so this is: the last Len(ext)
\* characters of name match the pattern ext.
ExtensionRegexSearch(ext, name) ==
    /\ Len(name) >= Len(ext)
    /\ \A i \in 1..Len(ext) : RegexCharMatch(ext[i], name[Len(name) - Len(ext) + i])

\* ------------------------------------------------------------ the dict
Keys(cache) == { cache[i].file : i \in 1..Len(cache) }

\* cache[file]
Get(cache, file) == (CHOOSE i \in 1..Len(cache) : cache[i].file = file)

Offset(cache, file) == cache[Get(cache, file)].off

\* cache[file] = n: the count of the new lines replaces the offset.
AddToAssigns(cache, file, n) ==
    [i \in 1..Len(cache) |->
        IF cache[i].file = file THEN [cache[i] EXCEPT !.off = n] ELSE cache[i]]

\* cache[file] += n
AddTo(cache, file, n) ==
    [i \in 1..Len(cache) |->
        IF cache[i].file = file THEN [cache[i] EXCEPT !.off = @ + n] ELSE cache[i]]

\* cache.pop(key) of the i-th key
PopAt(cache, i) == [j \in 1..(Len(cache) - 1) |-> IF j < i THEN cache[j] ELSE cache[j + 1]]

\* ----------------------------------------------------- sync_added_files
\* A reconcile that sets every listed file to offset 0, tracked or not.
RECURSIVE sync_added_files_resets(_, _)
sync_added_files_resets(cache, fs) ==
    IF fs = <<>> THEN cache
    ELSE IF Head(fs) \notin Keys(cache)
         THEN sync_added_files_resets(Append(cache, [file |-> Head(fs), off |-> 0]), Tail(fs))
         ELSE sync_added_files_resets(
                [i \in 1..Len(cache) |->
                    IF cache[i].file = Head(fs) THEN [cache[i] EXCEPT !.off = 0] ELSE cache[i]],
                Tail(fs))

RECURSIVE sync_added_files(_, _)
sync_added_files(cache, fs) ==
    IF fs = <<>> THEN cache
    ELSE IF Head(fs) \notin Keys(cache)
         THEN sync_added_files(Append(cache, [file |-> Head(fs), off |-> 0]), Tail(fs))
         ELSE sync_added_files(cache, Tail(fs))

\* The files sync_added_files logs as added, in order.
AddedFiles(cache, fs) == SelectSeq(fs, LAMBDA f : f \notin Keys(cache))

\* --------------------------------------------------- sync_deleted_files
\* The loop iterates cache.keys() and pops inside the loop.  The dict iterator
\* compares the dict's size with the size it started with at every step, so
\* the step that follows the first pop raises RuntimeError (also when the
\* popped key was the last one): exactly the first stale key, in insertion
\* order, is removed.  Result: the dict as left, and whether RuntimeError
\* was raised.
sync_deleted_files(cache, fs) ==
    LET stale == { i \in 1..Len(cache) : cache[i].file \notin Range(fs) }
    IN  IF stale = {}
        THEN [cache |-> cache, raised |-> FALSE, popped |-> <<>>]
        ELSE [cache |-> PopAt(cache, Min(stale)), raised |-> TRUE,
              popped |-> <<cache[Min(stale)].file>>]

\* ------------------------------------------------------ check_magic_text
\* The matcher numbering lines from 0.
RECURSIVE check_magic_loop_zero_based(_, _, _, _)
check_magic_loop_zero_based(file_lines, text, line_num, matches) ==
    IF file_lines = <<>> THEN matches
    ELSE check_magic_loop_zero_based(
            Tail(file_lines), text, line_num + 1,
            IF Contains(Lower(text), Lower(Head(file_lines)))
            THEN Append(matches, line_num) ELSE matches)

\* The matcher comparing the text and the line as they are.
RECURSIVE check_magic_loop_case_sensitive(_, _, _, _)
check_magic_loop_case_sensitive(file_lines, text, line_num, matches) ==
    IF file_lines = <<>> THEN matches
    ELSE check_magic_loop_case_sensitive(
            Tail(file_lines), text, line_num + 1,
            IF Contains(text, Head(file_lines))
            THEN Append(matches, line_num + 1) ELSE matches)

RECURSIVE check_magic_loop(_, _, _, _)
check_magic_loop(file_lines, text, line_num, matches) ==
    IF file_lines = <<>> THEN matches
    ELSE check_magic_loop(
            Tail(file_lines), text, line_num + 1,
            IF Contains(Lower(text), Lower(Head(file_lines)))
            THEN Append(matches, line_num + 1) ELSE matches)

check_magic_text(file_lines, text, first_line_num) ==
    check_magic_loop(file_lines, text, first_line_num, <<>>)

\* A reader that takes an offset past the end as a sign to start over.
SliceFromRestart(lines, line_start) ==
    IF line_start > Len(lines) THEN lines
    ELSE IF line_start = Len(lines) THEN <<>>
    ELSE SubSeq(lines, line_start + 1, Len(lines))

\* f.readlines()[line_start:] : a slice past the end is the empty list.
SliceFrom(lines, line_start) ==
    IF line_start >= Len(lines) THEN <<>> ELSE SubSeq(lines, line_start + 1, Len(lines))

\* ------------------------------------------------------------------ state
VARIABLES
    pc,          \* where watch_directory is: "check", "list", "read", "sleep",
                 \* "done" (returned to main), "crashed" (an exception left it)
    exit_flag,   \* the global exit_flag
    file_cache,  \* the dict file_cache
    files,       \* the list files of the cycle
    idx,         \* position of  for file in files  (0 outside the loop)
    cycles,      \* iterations of the while loop started so far
    dir_state,   \* the watched directory: "ok", "missing", "denied"
    dir_files,   \* its entries: name -> [exists, lines, readable]
    env_steps,   \* filesystem changes and signals so far
    log,         \* records the logger received in the current cycle (INFO and above)
    reported,    \* per file, the line numbers reported since it was last added to the cache
    clean,       \* per file: not deleted and not truncated since it was last added to the cache
    last_read,   \* what the latest call of read_single_file met
    cyc,         \* the current cycle: its listing, the cache at its start, the files read
    sig_at,      \* where the loop was when exit_flag was first set
    absent       \* tracked files a successful listing did not hold, not read since

vars == << pc, exit_flag, file_cache, files, idx, cycles, dir_state, dir_files,
           env_steps, log, reported, clean, last_read, cyc, sig_at, absent >>

Absent == [exists |-> FALSE, lines |-> <<>>, readable |-> TRUE]

NoRead == [file |-> <<>>, start_line |-> 0, total |-> 0, outcome |-> "none"]

NoSignal == [pc |-> "none", idx |-> 0, cycle |-> 0]

\* Entries of the directory that pass the filter of lines 182-184.
Matching == { n \in Names : dir_files[n].exists /\ ExtensionRegexSearch(file_ext, n) }

\* The log records.
Event(level, kind, file, line) == [level |-> level, kind |-> kind, file |-> file, line |-> line]

AddedEvents(fs) == [i \in 1..Len(fs) |-> Event("INFO", "added", fs[i], 0)]

DeletedEvents(fs) == [i \in 1..Len(fs) |-> Event("INFO", "deleted", fs[i], 0)]

MatchEvents(file, lns) == [i \in 1..Len(lns) |-> Event("INFO", "match", file, lns[i])]

DirectoryError == Event("ERROR", "directory does not exist", <<>>, 0)

SignalWarning == Event("WARNING", "received signal", <<>>, 0)

\* Contents a file may have when it appears: a watched file holds at most one line.
NewContents(n) ==
    IF ExtensionRegexSearch(file_ext, n) THEN SeqsUpTo(LineSet, 1) ELSE {<<>>}

\* What the directory may hold for an entry when the watch starts.
InitEntries(n) ==
    IF ExtensionRegexSearch(file_ext, n)
    THEN {Absent} \cup { [exists |-> TRUE, lines |-> l, readable |-> TRUE] : l \in NewContents(n) }
    ELSE {Absent}

Init ==
    /\ pc = "check"
    /\ exit_flag = FALSE
    /\ file_cache = <<>>
    /\ files = <<>>
    /\ idx = 0
    /\ cycles = 0
    /\ dir_state = "ok"
    /\ dir_files \in { d \in [Names -> UNION { InitEntries(n) : n \in Names }] :
                         \A n \in Names : d[n] \in InitEntries(n) }
    /\ env_steps = 0
    /\ log = <<>>
    /\ reported = [n \in Names |-> <<>>]
    /\ clean = [n \in Names |-> FALSE]
    /\ last_read = NoRead
    /\ cyc = [listing |-> "none", before |-> <<>>, attempted |-> {}, done |-> {}]
    /\ sig_at = NoSignal
    /\ absent = {}

\* ------------------------------------------------------- watch_directory
\* while not exit_flag: the flag is set, the loop ends and the function returns.
LoopExit ==
    /\ pc = "check"
    /\ exit_flag
    /\ pc' = "done"
    /\ UNCHANGED << exit_flag, file_cache, files, idx, cycles, dir_state, dir_files,
                    env_steps, log, reported, clean, last_read, cyc, sig_at, absent >>

\* while not exit_flag: the flag is clear, a cycle starts.
EnterCycle ==
    /\ pc = "check"
    /\ ~exit_flag
    /\ pc' = "list"
    /\ log' = <<>>
    /\ cyc' = [listing |-> "none", before |-> file_cache, attempted |-> {}, done |-> {}]
    /\ last_read' = NoRead
    /\ UNCHANGED << exit_flag, file_cache, files, idx, dir_state, dir_files,
                    env_steps, reported, clean, sig_at, absent >>

\* The same, counted and bounded.
LoopEnter ==
    /\ cycles < MaxCycles
    /\ cycles' = cycles + 1
    /\ EnterCycle

\* What os.listdir(directory_path) does.
ListOutcome ==
    CASE dir_state = "missing" -> "FileNotFoundError"
      [] dir_state = "denied" -> "PermissionError"
      [] OTHER -> "ok"

\* Lines 178-192 with the handlers of lines 231-237: list, filter, reconcile.
ListDirectory ==
    /\ pc = "list"
    /\ CASE ListOutcome = "FileNotFoundError" ->
              \* except FileNotFoundError: logged as an error, on to the sleep
              /\ pc' = "sleep"
              /\ log' = Append(log, DirectoryError)
              /\ cyc' = [cyc EXCEPT !.listing = "missing"]
              /\ UNCHANGED << file_cache, files, idx, reported, clean, absent >>
         [] ListOutcome = "PermissionError" ->
              \* no handler: the exception leaves watch_directory
              /\ pc' = "crashed"
              /\ cyc' = [cyc EXCEPT !.listing = "denied"]
              /\ UNCHANGED << file_cache, files, idx, log, reported, clean, absent >>
         [] OTHER ->
              \E fs \in Orderings(Matching) :
                LET added == sync_added_files(file_cache, fs)
                    new == AddedFiles(file_cache, fs)
                    del == sync_deleted_files(added, fs)
                IN  /\ files' = fs
                    /\ file_cache' = del.cache
                    /\ log' = log \o AddedEvents(new) \o DeletedEvents(del.popped)
                    /\ reported' = [n \in Names |-> IF n \in Range(new) THEN <<>> ELSE reported[n]]
                    /\ clean' = [n \in Names |-> IF n \in Range(new) THEN TRUE ELSE clean[n]]
                    /\ cyc' = [cyc EXCEPT !.listing = "ok"]
                    /\ absent' = absent \cup (Keys(file_cache) \ Range(fs))
                    \* except RuntimeError: the reads are skipped, on to the sleep
                    /\ pc' = IF del.raised \/ fs = <<>> THEN "sleep" ELSE "read"
                    /\ idx' = IF del.raised \/ fs = <<>> THEN 0 ELSE 1
    /\ UNCHANGED << exit_flag, cycles, dir_state, dir_files, env_steps, last_read, sig_at >>

\* What open(file_path, 'r') does.
OpenOutcome(file) ==
    CASE dir_state = "missing" \/ ~dir_files[file].exists -> "FileNotFoundError"
      [] dir_state = "denied" \/ ~dir_files[file].readable -> "PermissionError"
      [] OTHER -> "ok"

\* A report loop that starts at the second entry.
ReportedLinesSkipFirst(magic_text_lines) ==
    IF magic_text_lines = <<>> THEN <<>> ELSE Tail(magic_text_lines)

\* Lines 214-221: for i in range(len(magic_text_lines)), one report per entry.
ReportedLines(magic_text_lines) ==
    [i \in 1..Len(magic_text_lines) |-> magic_text_lines[i]]

\* for file in files: which step follows the body run for the i-th file.
AfterRead(i, fs) == IF i < Len(fs) THEN "read" ELSE "sleep"

\* Lines 197-226, one file: read_single_file, check_magic_text, the reports
\* and the update of the cache.  open() is outside the try of
\* read_single_file, so its exceptions reach watch_directory.
ReadFile ==
    /\ pc = "read"
    /\ idx \in 1..Len(files)
    /\ LET file == files[idx]
           start_line == Offset(file_cache, file)
           outcome == OpenOutcome(file)
           lines == dir_files[file].lines
           new_content == SliceFrom(lines, start_line)
           magic_text_lines ==
               IF new_content # <<>> THEN check_magic_text(new_content, magic_text, start_line)
               ELSE <<>>
       IN  /\ absent' = absent \ {file}
           /\ last_read' = [file |-> file, start_line |-> start_line,
                            total |-> IF outcome = "ok" THEN Len(lines) ELSE 0,
                            outcome |-> outcome]
           /\ CASE outcome = "FileNotFoundError" ->
                     \* caught by except FileNotFoundError of watch_directory
                     /\ pc' = "sleep"
                     /\ idx' = 0
                     /\ log' = Append(log, DirectoryError)
                     /\ cyc' = [cyc EXCEPT !.attempted = @ \cup {file}]
                     /\ UNCHANGED << file_cache, reported >>
                [] outcome = "PermissionError" ->
                     \* no handler: the exception leaves watch_directory
                     /\ pc' = "crashed"
                     /\ idx' = 0
                     /\ cyc' = [cyc EXCEPT !.attempted = @ \cup {file}]
                     /\ UNCHANGED << file_cache, log, reported >>
                [] OTHER ->
                     /\ pc' = AfterRead(idx, files)
                     /\ idx' = IF AfterRead(idx, files) = "read" THEN idx + 1 ELSE 0
                     /\ log' = log \o MatchEvents(file, ReportedLines(magic_text_lines))
                     /\ reported' = [reported EXCEPT ![file] = @ \o ReportedLines(magic_text_lines)]
                     /\ file_cache' = IF new_content # <<>>
                                      THEN AddTo(file_cache, file, Len(new_content))
                                      ELSE file_cache
                     /\ cyc' = [cyc EXCEPT !.attempted = @ \cup {file}, !.done = @ \cup {file}]
    /\ UNCHANGED << exit_flag, files, cycles, dir_state, dir_files, env_steps, clean, sig_at >>

\* time.sleep(interval), then back to the while condition.
Sleep ==
    /\ pc = "sleep"
    /\ pc' = "check"
    /\ UNCHANGED << exit_flag, file_cache, files, idx, cycles, dir_state, dir_files,
                    env_steps, log, reported, clean, last_read, cyc, sig_at, absent >>

\* -------------------------------------------------------- signal_handler
Running == pc \notin {"done", "crashed"}

\* A handler that ends the process itself instead of setting the flag only.
SignalHandlerExits ==
    /\ Running
    /\ env_steps < MaxEnv
    /\ env_steps' = env_steps + 1
    /\ exit_flag' = TRUE
    /\ pc' = "done"
    /\ log' = Append(log, SignalWarning)
    /\ sig_at' = IF exit_flag THEN sig_at ELSE [pc |-> pc, idx |-> idx, cycle |-> cycles]
    /\ UNCHANGED << file_cache, files, idx, cycles, dir_state, dir_files,
                    reported, clean, last_read, cyc, absent >>

SignalHandler ==
    /\ Running
    /\ env_steps < MaxEnv
    /\ env_steps' = env_steps + 1
    /\ exit_flag' = TRUE
    /\ log' = Append(log, SignalWarning)
    /\ sig_at' = IF exit_flag THEN sig_at ELSE [pc |-> pc, idx |-> idx, cycle |-> cycles]
    /\ UNCHANGED << pc, file_cache, files, idx, cycles, dir_state, dir_files,
                    reported, clean, last_read, cyc, absent >>

\* -------------------------------------------------------- the filesystem
\* One change of the filesystem by another process.
\* Only the listing and the reads look at the filesystem, so a change made
\* while the loop is elsewhere is the same change made just before them.
EnvBudget ==
    /\ pc \in {"list", "read"}
    /\ env_steps < MaxEnv
    /\ env_steps' = env_steps + 1

\* A file appears in the directory (created, or moved in with its content).
Created(n, l) ==
    /\ ~dir_files[n].exists
    /\ dir_files' = [dir_files EXCEPT ![n] = [exists |-> TRUE, lines |-> l, readable |-> TRUE]]
    /\ UNCHANGED << pc, exit_flag, file_cache, files, idx, cycles, dir_state,
                    log, reported, clean, last_read, cyc, sig_at, absent >>

CreateFile(n, l) == EnvBudget /\ Created(n, l)

\* A whole line is appended to a watched file.
Appended(n, l) ==
    /\ dir_files[n].exists
    /\ ExtensionRegexSearch(file_ext, n)
    /\ Len(dir_files[n].lines) < MaxLines
    /\ dir_files' = [dir_files EXCEPT ![n].lines = Append(@, l)]
    /\ UNCHANGED << pc, exit_flag, file_cache, files, idx, cycles, dir_state,
                    log, reported, clean, last_read, cyc, sig_at, absent >>

AppendLine(n, l) == EnvBudget /\ Appended(n, l)

\* A file is removed from the directory.
Deleted(n) ==
    /\ dir_files[n].exists
    /\ dir_files' = [dir_files EXCEPT ![n] = Absent]
    /\ clean' = [clean EXCEPT ![n] = FALSE]
    /\ UNCHANGED << pc, exit_flag, file_cache, files, idx, cycles, dir_state,
                    log, reported, last_read, cyc, sig_at, absent >>

DeleteFile(n) == EnvBudget /\ Deleted(n)

\* Every entry of the directory is removed at once (two or more of them).
ClearDirectory ==
    /\ EnvBudget
    /\ Cardinality({ n \in Names : dir_files[n].exists }) >= 2
    /\ dir_files' = [n \in Names |-> Absent]
    /\ clean' = [n \in Names |-> IF dir_files[n].exists THEN FALSE ELSE clean[n]]
    /\ UNCHANGED << pc, exit_flag, file_cache, files, idx, cycles, dir_state,
                    log, reported, last_read, cyc, sig_at, absent >>

\* A watched file is cut back to its first k lines.
TruncateFile(n, k) ==
    /\ EnvBudget
    /\ dir_files[n].exists
    /\ k < Len(dir_files[n].lines)
    /\ dir_files' = [dir_files EXCEPT ![n].lines = SubSeq(@, 1, k)]
    /\ clean' = [clean EXCEPT ![n] = FALSE]
    /\ UNCHANGED << pc, exit_flag, file_cache, files, idx, cycles, dir_state,
                    log, reported, last_read, cyc, sig_at, absent >>

\* The read permission of a watched file is taken away or given back.
ChmodFile(n) ==
    /\ EnvBudget
    /\ dir_files[n].exists
    /\ ExtensionRegexSearch(file_ext, n)
    /\ dir_files' = [dir_files EXCEPT ![n].readable = ~@]
    /\ UNCHANGED << pc, exit_flag, file_cache, files, idx, cycles, dir_state,
                    log, reported, clean, last_read, cyc, sig_at, absent >>

\* The watched directory is moved away, loses its permissions, or is back.
SetDirState(s) ==
    /\ EnvBudget
    /\ s # dir_state
    /\ dir_state' = s
    /\ UNCHANGED << pc, exit_flag, file_cache, files, idx, cycles, dir_files,
                    log, reported, clean, last_read, cyc, sig_at, absent >>

CreateStep == \E n \in Names : \E l \in NewContents(n) : CreateFile(n, l)

AppendStep == \E n \in Names, l \in LineSet : AppendLine(n, l)

DeleteStep == \E n \in Names : DeleteFile(n)

TruncateStep == \E n \in Names, k \in 0..MaxLines : TruncateFile(n, k)

ChmodStep == \E n \in Names : ChmodFile(n)

DirStep == \E s \in {"ok", "missing", "denied"} : SetDirState(s)

Next ==
    \/ LoopExit
    \/ LoopEnter
    \/ ListDirectory
    \/ ReadFile
    \/ Sleep
    \/ SignalHandler
    \/ CreateStep
    \/ AppendStep
    \/ DeleteStep
    \/ ClearDirectory
    \/ TruncateStep
    \/ ChmodStep
    \/ DirStep

Spec == Init /\ [][Next]_vars

\* ------------------------------------------- the loop under endless churn
\* The loop cycling for ever (no signal arrives) beside a process that keeps
\* creating and deleting the other watched files and appending lines, with
\* nothing counted.  The loop is a sequential program that never blocks: a
\* step of it that can be taken is taken.
TargetFile == <<"a", ".", "l">>

Churned == { n \in Names : n # TargetFile /\ ExtensionRegexSearch(file_ext, n) }

FreeStep == pc \in {"list", "read"} /\ UNCHANGED env_steps

EnterUncounted == EnterCycle /\ UNCHANGED cycles

ChurnCreate == \E n \in Churned : \E l \in NewContents(n) : FreeStep /\ Created(n, l)

ChurnDelete == \E n \in Churned : FreeStep /\ Deleted(n)

ChurnAppend == \E n \in Names, l \in LineSet : FreeStep /\ Appended(n, l)

LoopStep == EnterUncounted \/ ListDirectory \/ ReadFile \/ Sleep

ChurnNext ==
    \/ EnterUncounted
    \/ ListDirectory
    \/ ReadFile
    \/ Sleep
    \/ ChurnCreate
    \/ ChurnDelete
    \/ ChurnAppend

ChurnSpec == Init /\ [][ChurnNext]_vars /\ WF_vars(LoopStep)

\* ------------------------------------------------------------- properties
\* The case-insensitive substring test on one line.
LineMatches(line) == Contains(Lower(magic_text), Lower(line))

\* The line numbers of lines that hold the text.
MatchesIn(lines) == { i \in 1..Len(lines) : LineMatches(lines[i]) }

ErrorEvents == { i \in 1..Len(log) : log[i].level = "ERROR" }

\* The files whose read failed in the current cycle.
ReadFailed == cyc.attempted \ cyc.done

\* Reports of file f in the log of the current cycle.
MatchLog(l, f) == SelectSeq(l, LAMBDA e : e.kind = "match" /\ e.file = f)

\* f has been in the directory, appended to only, since it was added to the
\* cache, and every line of it has been read.
CaughtUp(f) ==
    /\ f \in Keys(file_cache)
    /\ clean[f]
    /\ dir_files[f].exists
    /\ Offset(file_cache, f) = Len(dir_files[f].lines)

NoLineLostOrRepeated(f) ==
    /\ Range(reported[f]) = MatchesIn(dir_files[f].lines)
    /\ Cardinality(Range(reported[f])) = Len(reported[f])

\* C1: in every cycle whose listing succeeds, right after the reconcile step
\* the keys of the registry are exactly the files of the listing.
C1_RegistryEqualsListing ==
    (cyc.listing = "ok" /\ pc \in {"read", "sleep"} /\ cyc.attempted = {})
        => Keys(file_cache) = Range(files)

\* C2: for a file that stays in the directory and is only appended to, once
\* the offset equals its line count the line numbers reported for it over all
\* cycles are exactly the matching lines of its content, none reported twice.
C2_IncrementalScanEqualsFullScan ==
    \A f \in Names : CaughtUp(f) => NoLineLostOrRepeated(f)

\* C2 witness: a file read in two cycles, one matching line in each.
C2_Witness ==
    \E f \in Names :
        /\ CaughtUp(f)
        /\ cycles >= 2
        /\ last_read.file = f /\ last_read.start_line = 1 /\ last_read.total = 2
        /\ reported[f] = <<1, 2>>

\* C3: when the read of one file fails in a cycle, the cycle is not aborted:
\* the loop does not end and every other file of the listing has been read
\* when the cycle reaches its sleep.
C3_ReadFailureIsPerFile ==
    ReadFailed # {} =>
        /\ pc # "crashed"
        /\ pc = "sleep" => (Range(files) \ ReadFailed) \subseteq cyc.done

\* C4: no filesystem error ends the loop.
C4_NoErrorEndsTheLoop == pc # "crashed"

\* C5: in every cycle whose listing succeeds, every file of the reconciled
\* registry has had its read-and-match step run when the sleep is reached
\* (stated here for the cycles in which no read failed).
C5_EveryTrackedFileIsRead ==
    (cyc.listing = "ok" /\ pc = "sleep" /\ ReadFailed = {})
        => Keys(file_cache) \subseteq cyc.attempted

\* C6: a tracked file absent from the successful listing of a cycle is no
\* longer a key of the registry at the end of that cycle.
C6_RemovedFileLeavesWithinOneCycle ==
    (cyc.listing = "ok" /\ pc \in {"sleep", "check", "done"}) =>
        \A f \in Keys(cyc.before) : f \notin Range(files) => f \notin Keys(file_cache)

\* C7: a cycle that finds the directory inaccessible (missing or permission
\* denied) changes no key and no offset, logs exactly one error, goes on to
\* its sleep, and no line of a file left alone is lost or repeated later.
C7_InaccessibleDirectoryCycle ==
    /\ cyc.listing \in {"missing", "denied"} =>
          /\ file_cache = cyc.before
          /\ Cardinality(ErrorEvents) = 1
          /\ pc \in {"sleep", "check", "done"}
    /\ \A f \in Names : CaughtUp(f) => NoLineLostOrRepeated(f)

\* C8: a read of a file with offset k and n > k lines reports exactly the
\* matching lines among k+1..n, each once, under its absolute 1-based number,
\* in ascending order, and sets the offset to n whether or not a line matched.
C8_ReadScansExactlyTheNewLines ==
    [][ \A f \in Names :
          LET k == Offset(file_cache, f)
              n == Len(dir_files[f].lines)
              rep == MatchLog(SubSeq(log', Len(log) + 1, Len(log')), f)
          IN  (ReadFile /\ files[idx] = f /\ OpenOutcome(f) = "ok" /\ n > k) =>
                /\ Offset(file_cache', f) = n
                /\ Len(log') = Len(log) + Len(rep)
                /\ { rep[i].line : i \in 1..Len(rep) } = { i \in (k + 1)..n : LineMatches(dir_files[f].lines[i]) }
                /\ \A i, j \in 1..Len(rep) : i < j => rep[i].line < rep[j].line
      ]_vars

\* C8 witness: offset 1, two lines, the text in line 2 only: one report, for
\* line 2, and the offset is 2.
C8_Witness ==
    /\ last_read.outcome = "ok"
    /\ last_read.start_line = 1
    /\ last_read.total = 2
    /\ dir_files[last_read.file].lines \in
          { l \in SeqsUpTo(LineSet, 2) : Len(l) = 2 /\ ~LineMatches(l[1]) /\ LineMatches(l[2]) }
    /\ MatchLog(log, last_read.file) = <<Event("INFO", "match", last_read.file, 2)>>
    /\ Offset(file_cache, last_read.file) = 2

\* C9: a read of a file whose line count is at most its offset reports
\* nothing, raises nothing and leaves the cache as it is.
C9_NoNewLinesNoEffect ==
    [][ (/\ ReadFile
         /\ OpenOutcome(files[idx]) = "ok"
         /\ Len(dir_files[files[idx]].lines) <= Offset(file_cache, files[idx])) =>
            /\ log' = log
            /\ file_cache' = file_cache
            /\ reported' = reported
            /\ pc' \in {"read", "sleep"}
      ]_vars

\* C9 witness: a truncated file has been read: fewer lines than its offset,
\* and the offset is what it was.
C9_Witness ==
    /\ last_read.outcome = "ok"
    /\ 0 < last_read.total
    /\ last_read.total < last_read.start_line
    /\ last_read.file \in Keys(file_cache)
    /\ Offset(file_cache, last_read.file) = last_read.start_line
    /\ MatchLog(log, last_read.file) = <<>>

\* C10: the loop returns only from the while condition; setting the flag
\* changes nothing else; with the flag set, a read in progress is followed by
\* the reads of the remaining files and the sleep by the while condition.
C10_StopFlagOnlyBetweenCycles ==
    [][ /\ (pc' = "done" /\ pc # "done") => (pc = "check" /\ exit_flag)
        /\ (exit_flag' /\ ~exit_flag) =>
              (pc' = pc /\ idx' = idx /\ file_cache' = file_cache /\ files' = files /\ cyc' = cyc)
        /\ (exit_flag /\ ReadFile /\ OpenOutcome(files[idx]) = "ok") =>
              /\ files[idx] \in cyc'.done
              /\ Offset(file_cache', files[idx]) >= Len(dir_files[files[idx]].lines)
              /\ IF idx < Len(files) THEN pc' = "read" /\ idx' = idx + 1 ELSE pc' = "sleep"
        /\ (exit_flag /\ pc = "sleep" /\ pc' # pc) => pc' = "check"
      ]_vars

\* C10 witness: the flag was set before the first of two files was read, both
\* were read, and the loop returned in that cycle.
C10_Witness ==
    /\ sig_at.pc = "read" /\ sig_at.idx = 1 /\ sig_at.cycle = cycles
    /\ Len(files) = 2
    /\ cyc.done = Range(files)
    /\ \E f \in Range(files) : Len(MatchLog(log, f)) > 0
    /\ pc = "done"

\* One step of watch_directory.
ProgramStep == LoopExit \/ LoopEnter \/ ListDirectory \/ ReadFile \/ Sleep

\* C11: once the stop flag is set the loop goes on to return to its caller
\* (it has returned, or its next step can be taken), and it starts no
\* iteration after the one in progress when the flag was set.
C11_StopFlagEndsTheLoop ==
    exit_flag =>
        /\ pc = "done" \/ ENABLED ProgramStep
        /\ cycles = sig_at.cycle

\* The reconcile step of lines 189-192 on a registry and a listing: the
\* registry it leaves.
Reconcile(cache, fs) == sync_deleted_files(sync_added_files(cache, fs), fs).cache

\* The listings a directory may give: every order of every set of names
\* that pass the filter.
Listings ==
    UNION { Orderings(S) : S \in SUBSET { n \in Names : ExtensionRegexSearch(file_ext, n) } }

\* C12: the reconcile step is idempotent: applied a second time with the same
\* listing it leaves the registry as the first application left it.
C12_ReconcileIdempotent ==
    \A fs \in Listings : Reconcile(Reconcile(file_cache, fs), fs) = Reconcile(file_cache, fs)

\* name ends with the characters of ext, compared one by one.
EndsWith(name, ext) ==
    /\ Len(name) >= Len(ext)
    /\ SubSeq(name, Len(name) - Len(ext) + 1, Len(name)) = ext

\* C13: the file list of a cycle holds exactly the entries whose name ends
\* with the extension, taken literally and case-sensitively.
C13_FilterIsLiteralSuffix ==
    [][ (ListDirectory /\ ListOutcome = "ok") =>
            Range(files') = { n \in Names : dir_files[n].exists /\ EndsWith(n, file_ext) }
      ]_vars

\* Two characters that are the same letter in either case.
SameLetter(a, b) ==
    \/ a = b
    \/ {a, b} \in { {"e", "E"}, {"r", "R"}, {"l", "L"}, {"o", "O"}, {"k", "K"} }

\* text occurs in line at some position, letter by letter, whatever the case.
CaselessContains(text, line) ==
    \E s \in 0..(Len(line) - Len(text)) :
        \A i \in 1..Len(text) : SameLetter(text[i], line[s + i])

\* C14: a newly read line is reported if and only if it contains the text
\* as a substring, compared case-insensitively.
C14_MatchIsCaselessSubstring ==
    [][ (ReadFile /\ OpenOutcome(files[idx]) = "ok") =>
          LET f == files[idx]
              k == Offset(file_cache, f)
              lines == dir_files[f].lines
              new == SubSeq(log', Len(log) + 1, Len(log'))
          IN  \A i \in (k + 1)..Len(lines) :
                (\E j \in 1..Len(new) : new[j] = Event("INFO", "match", f, i))
                    <=> CaselessContains(magic_text, lines[i])
      ]_vars

\* C14 witness: a file of two lines read from the start: the first holds the
\* text in another casing and is reported, the second does not hold it and
\* is not.
C14_Witness ==
    /\ last_read.outcome = "ok"
    /\ last_read.start_line = 0
    /\ last_read.total = 2
    /\ LET lines == dir_files[last_read.file].lines
       IN  /\ Len(lines) = 2
           /\ ~Contains(magic_text, lines[1])
           /\ CaselessContains(magic_text, lines[1])
           /\ ~CaselessContains(magic_text, lines[2])
    /\ MatchLog(log, last_read.file) = <<Event("INFO", "match", last_read.file, 1)>>

\* C15: a tracked file that vanished between the listing and its read is
\* taken as having no new lines: nothing reported, the cache unchanged, one
\* warning about that file logged and no error.
C15_VanishedFileIsAWarning ==
    [][ (ReadFile /\ dir_state = "ok" /\ ~dir_files[files[idx]].exists) =>
          /\ file_cache' = file_cache
          /\ reported' = reported
          /\ Len(log') = Len(log) + 1
          /\ log'[Len(log')].level = "WARNING"
          /\ log'[Len(log')].file = files[idx]
      ]_vars

\* C16: a file that a successful listing did not hold and a later listing
\* holds again is tracked afresh: its next read starts at offset 0.
C16_ReappearedFileStartsAtZero ==
    [][ (ReadFile /\ files[idx] \in absent) => Offset(file_cache, files[idx]) = 0 ]_vars

Max2(a, b) == IF a >= b THEN a ELSE b

\* C18: while a file stays in the registry its offset never decreases, and a
\* read that opens the file leaves the offset at the larger of the offset
\* before and the line count the read saw.
C18_OffsetIsMonotone ==
    [][ \A f \in Keys(file_cache) \cap Keys(file_cache') :
          /\ Offset(file_cache', f) >= Offset(file_cache, f)
          /\ (ReadFile /\ files[idx] = f /\ OpenOutcome(f) = "ok") =>
                Offset(file_cache', f) = Max2(Offset(file_cache, f), Len(dir_files[f].lines))
      ]_vars

\* C18 witness: a file read up to line 2, cut back to one line and read
\* again: the offset is still 2.
C18_Witness ==
    /\ last_read.outcome = "ok"
    /\ last_read.start_line = 2
    /\ last_read.total = 1
    /\ last_read.file \in Keys(file_cache)
    /\ Offset(file_cache, last_read.file) = 2
    /\ ~clean[last_read.file]

\* C19: the reconcile step leaves the offset of every file that is in the
\* registry and in the listing as it is; an offset changes only in the read
\* of that very file.
C19_OffsetsChangeOnlyByOwnRead ==
    [][ /\ (ListDirectory /\ ListOutcome = "ok") =>
              \A f \in Keys(file_cache) \cap Range(files') :
                  f \in Keys(file_cache') /\ Offset(file_cache', f) = Offset(file_cache, f)
        /\ \A f \in Keys(file_cache) \cap Keys(file_cache') :
              Offset(file_cache', f) # Offset(file_cache, f) => (ReadFile /\ files[idx] = f)
      ]_vars

\* C19 witness: a reconcile step that added a file has left the offset 1 of
\* a file already tracked, and the read of the new file has left it too.
C19_Witness ==
    \E f, g \in Names :
        /\ f # g
        /\ cyc.listing = "ok"
        /\ f \in Keys(cyc.before) /\ g \notin Keys(cyc.before)
        /\ Offset(cyc.before, f) = 1
        /\ {f, g} \subseteq Keys(file_cache)
        /\ Offset(file_cache, f) = 1
        /\ g \in cyc.done /\ Offset(file_cache, g) = 1
        /\ f \notin cyc.attempted

\* The reports of lines 197-221 for a cycle that reads the files of fs in
\* that order from the registry cache, every file being readable.
RECURSIVE CycleReports(_, _)
CycleReports(cache, fs) ==
    IF fs = <<>> THEN <<>>
    ELSE LET file == Head(fs)
             start_line == Offset(cache, file)
             new_content == SliceFrom(dir_files[file].lines, start_line)
             magic_text_lines ==
                 IF new_content # <<>> THEN check_magic_text(new_content, magic_text, start_line)
                 ELSE <<>>
         IN  MatchEvents(file, ReportedLines(magic_text_lines)) \o CycleReports(cache, Tail(fs))

\* C20: the reports of a cycle depend on the set of matching files and their
\* contents only: from the same registry and the same directory, every order
\* in which the listing may return the entries gives the same sequence of
\* reports.
C20_ReportOrderIsDeterministic ==
    (pc = "list" /\ ListOutcome = "ok") =>
        \A fs1, fs2 \in Orderings(Matching) :
            CycleReports(sync_added_files(file_cache, fs1), fs1)
                = CycleReports(sync_added_files(file_cache, fs2), fs2)

\* C17: while the loop keeps cycling and a readable file stays in the
\* directory, the lines appended to it are scanned in the end: again and
\* again its offset equals its line count, however the other watched files
\* come and go.
C17_EveryLineEventuallyScanned ==
    [](dir_files[TargetFile].exists /\ dir_files[TargetFile].readable /\ dir_state = "ok")
        => []<>(/\ TargetFile \in Keys(file_cache)
                /\ Offset(file_cache, TargetFile) = Len(dir_files[TargetFile].lines))

====
